---- MODULE Spec2Model ----
(***************************************************************************)
(* A model of jenkins_jobs/modules/views.py: the two view generators       *)
(* List.root_xml and Pipeline.root_xml, which turn an options mapping into *)
(* an xml.etree.ElementTree document.                                      *)
(*                                                                         *)
(* Python values are tagged records [t, v]; elements live in a heap (a     *)
(* sequence of element objects, an element's identity is its index), so    *)
(* that object identity, child order, attributes and text are all explicit.*)
(***************************************************************************)
EXTENDS Integers, Sequences, FiniteSets, TLC

VARIABLES heap, calls

vars == <<heap, calls>>

-----------------------------------------------------------------------------
(* Python values *)

None == [t |-> "none", v |-> "None"]
B(b) == [t |-> "bool", v |-> b]
S(s) == [t |-> "str", v |-> s]
I(n) == [t |-> "int", v |-> n]
L(s) == [t |-> "list", v |-> s]
Ref(id) == [t |-> "elem", v |-> id]
KeyError(k) == [t |-> "KeyError", v |-> k]

\* Python truth value testing, as used by `'true' if x else 'false'`
Truthy(x) ==
  CASE x.t = "bool" -> x.v
    [] x.t = "none" -> FALSE
    [] x.t = "str" -> x.v /= ""
    [] x.t = "int" -> x.v /= 0
    [] x.t = "list" -> x.v /= <<>>

Digits == <<"0", "1", "2", "3", "4", "5", "6", "7", "8", "9">>

RECURSIVE IntStr(_)
\* str() of an int: its decimal digits
IntStr(n) ==
  IF n < 0 THEN "-" \o IntStr(-n)
  ELSE IF n < Len(Digits) THEN Digits[n + 1]
  ELSE IntStr(n \div Len(Digits)) \o Digits[(n % Len(Digits)) + 1]

\* the builtin str()
str(x) ==
  CASE x.t = "str" -> x
    [] x.t = "int" -> S(IntStr(x.v))
    [] x.t = "bool" -> S(IF x.v THEN "True" ELSE "False")
    [] x.t = "none" -> S("None")

\* dict.get(key, default)
Get(data, key, default) == IF key \in DOMAIN data THEN data[key] ELSE default

\* data.get(key) in place of data[key]: a missing key gives None, no error
GetItem_get(data, key) == [val |-> Get(data, key, None), exc |-> None]

\* data[key]: the value, or KeyError(key) raised
GetItem(data, key) ==
  IF key \in DOMAIN data
  THEN [val |-> data[key], exc |-> None]
  ELSE [val |-> None, exc |-> KeyError(key)]

\* str(bool(x)) in place of the literals: 'True' / 'False'
TrueFalse_pystr(x) == str(B(Truthy(x)))

\* `'true' if x else 'false'`
TrueFalse(x) == IF Truthy(x) THEN S("true") ELSE S("false")

-----------------------------------------------------------------------------
(* xml.etree.ElementTree *)

NoAttrib == {}
Attrib(k, v) == {<<k, v>>}

NewElement(tag, attrib) ==
  [tag |-> tag, attrib |-> attrib, text |-> None, children |-> <<>>]

\* a root kept from the call before in place of a fresh one
Element_reused(h, tag, attrib) ==
  IF h = <<>> THEN Append(h, NewElement(tag, attrib)) ELSE h

\* XML.Element(tag, attrib): a fresh element; its identity is Len of the result
Element(h, tag, attrib) == Append(h, NewElement(tag, attrib))

\* XML.SubElement(parent, tag, attrib): a fresh element appended to parent
SubElement(h, parent, tag, attrib) ==
  Append([h EXCEPT ![parent].children = Append(@, Len(h) + 1)],
         NewElement(tag, attrib))

\* element.text = value
SetText(h, id, value) == [h EXCEPT ![id].text = value]

\* XML.SubElement(parent, tag).text = value
SubElementText(h, parent, tag, value) ==
  SetText(SubElement(h, parent, tag, NoAttrib), Len(h) + 1, value)

-----------------------------------------------------------------------------
(* views.py *)

COLUMN_DICT ==
  ("status" :> "hudson.views.StatusColumn") @@
  ("weather" :> "hudson.views.WeatherColumn") @@
  ("job" :> "hudson.views.JobColumn") @@
  ("last-success" :> "hudson.views.LastSuccessColumn") @@
  ("last-failure" :> "hudson.views.LastFailureColumn") @@
  ("last-duration" :> "hudson.views.LastDurationColumn") @@
  ("build-button" :> "hudson.views.BuildButtonColumn") @@
  ("last-stable" :> "hudson.views.LastStableColumn")

RECURSIVE JobNameLoop_nostr(_, _, _, _)
\* the job name stored as given, without str()
JobNameLoop_nostr(h, jn_xml, jobnames, i) ==
  IF i > Len(jobnames) THEN h
  ELSE JobNameLoop_nostr(SubElementText(h, jn_xml, "string", jobnames[i]),
                         jn_xml, jobnames, i + 1)

RECURSIVE JobNameLoop(_, _, _, _)
\* for jobname in jobnames: XML.SubElement(jn_xml, 'string').text = str(jobname)
JobNameLoop(h, jn_xml, jobnames, i) ==
  IF i > Len(jobnames) THEN h
  ELSE JobNameLoop(SubElementText(h, jn_xml, "string", str(jobnames[i])),
                   jn_xml, jobnames, i + 1)

\* no membership test: an unknown identifier becomes a child of its own name
ColumnStep_unfiltered(h, c_xml, column) ==
  SubElement(h, c_xml,
             IF column.v \in DOMAIN COLUMN_DICT THEN COLUMN_DICT[column.v] ELSE column.v,
             NoAttrib)

\* if column in COLUMN_DICT: XML.SubElement(c_xml, COLUMN_DICT[column])
ColumnStep(h, c_xml, column) ==
  IF column.v \in DOMAIN COLUMN_DICT
  THEN SubElement(h, c_xml, COLUMN_DICT[column.v], NoAttrib)
  ELSE h

RECURSIVE ColumnLoop(_, _, _, _)
\* for column in columns: ...
ColumnLoop(h, c_xml, columns, i) ==
  IF i > Len(columns) THEN h
  ELSE ColumnLoop(ColumnStep(h, c_xml, columns[i]), c_xml, columns, i + 1)

\* the element created whether or not the option is set
OptionalElement_always(h, root, tag, value) ==
  IF value /= None
  THEN SubElementText(h, root, tag, value)
  ELSE SubElement(h, root, tag, NoAttrib)

\* if value is not None: XML.SubElement(root, tag).text = value
OptionalElement(h, root, tag, value) ==
  IF value /= None THEN SubElementText(h, root, tag, value) ELSE h

\* a statusFilter rendered like the other booleans, with a default of false
StatusFilterStep_defaulted(h, root, statusfilter) ==
  SubElementText(h, root, "statusFilter", TrueFalse(statusfilter))

\* if statusfilter is not None: a statusFilter element with 'true' or 'false'
StatusFilterStep(h, root, statusfilter) ==
  IF statusfilter /= None
  THEN SubElementText(h, root, "statusFilter", TrueFalse(statusfilter))
  ELSE h

\* List.root_xml(data): the heap after the call, the value returned and the
\* exception raised (None when the call returns)
List_root_xml(h0, data) ==
  LET h1 == Element(h0, "hudson.model.ListView", NoAttrib)
      root == Len(h1)
      name == GetItem(data, "name")
  IN
  IF name.exc /= None
  THEN [heap |-> h1, ret |-> None, exc |-> name.exc]
  ELSE
  LET h2 == SubElementText(h1, root, "name", name.val)
      desc_text == Get(data, "description", None)
      h3 == OptionalElement(h2, root, "description", desc_text)
      filterExecutors == Get(data, "filter-executors", B(FALSE))
      h4 == SubElementText(h3, root, "filterExecutors", TrueFalse(filterExecutors))
      filterQueue == Get(data, "filter-queue", B(FALSE))
      h5 == SubElementText(h4, root, "filterQueue", TrueFalse(filterQueue))
      h6 == SubElement(h5, root, "properties",
                       Attrib("class", "hudson.model.View$PropertyList"))
      h7 == SubElement(h6, root, "jobNames", NoAttrib)
      jn_xml == Len(h7)
      jobnames == Get(data, "job-name", None)
      h8 == SubElement(h7, jn_xml, "comparator",
                       Attrib("class", "hudson.util.CaseInsensitiveComparator"))
      h9 == IF jobnames /= None THEN JobNameLoop(h8, jn_xml, jobnames.v, 1) ELSE h8
      h10 == SubElement(h9, root, "jobFilters", NoAttrib)
      h11 == SubElement(h10, root, "columns", NoAttrib)
      c_xml == Len(h11)
      columns == Get(data, "columns", L(<<>>))
      h12 == ColumnLoop(h11, c_xml, columns.v, 1)
      regex == Get(data, "regex", None)
      h13 == OptionalElement(h12, root, "includeRegex", regex)
      recurse == Get(data, "recurse", B(FALSE))
      h14 == SubElementText(h13, root, "recurse", TrueFalse(recurse))
      statusfilter == Get(data, "status-filter", None)
      h15 == StatusFilterStep(h14, root, statusfilter)
  IN [heap |-> h15, ret |-> Ref(root), exc |-> None]

\* the three link styles of the documentation
linktypes_documented == {S("Lightbox"), S("New Window"), S("This Window")}

linktypes == {S("Lightbox"), S("New Window")}

\* if linkStyle in linktypes: linkStyle, else: 'Lightbox'
LinkStyleText(linkStyle) ==
  IF linkStyle \in linktypes THEN linkStyle ELSE S("Lightbox")

\* the element left out when the option is unset
ElementOptionalText_omitted(h, root, tag, value) ==
  IF value /= None THEN SubElementText(h, root, tag, value) ELSE h

\* an element that is always created; its text is set if value is not None
ElementOptionalText(h, root, tag, value) ==
  LET h1 == SubElement(h, root, tag, NoAttrib)
  IN IF value /= None THEN SetText(h1, Len(h1), value) ELSE h1

\* start_with_parameters = data.get('start-with-parameters', False)
StartWithParameters(data) == Get(data, "start-with-parameters", B(FALSE))

\* Pipeline.root_xml(data)
Pipeline_root_xml(h0, data) ==
  LET h1 == Element(h0, "au.com.centrumsystems.hudson.plugin.buildpipeline.BuildPipelineView",
                    Attrib("plugin", "build-pipeline-plugin"))
      root == Len(h1)
      name == GetItem(data, "name")
  IN
  IF name.exc /= None
  THEN [heap |-> h1, ret |-> None, exc |-> name.exc]
  ELSE
  LET h2 == SubElementText(h1, root, "name", name.val)
      desc_text == Get(data, "description", None)
      h3 == OptionalElement(h2, root, "description", desc_text)
      filterExecutors == Get(data, "filter-executors", B(FALSE))
      h4 == SubElementText(h3, root, "filterExecutors", TrueFalse(filterExecutors))
      filterQueue == Get(data, "filter-queue", B(FALSE))
      h5 == SubElementText(h4, root, "filterQueue", TrueFalse(filterQueue))
      h6 == SubElement(h5, root, "properties",
                       Attrib("class", "hudson.model.View$PropertyList"))
      GBurl == "au.com.centrumsystems.hudson.plugin.buildpipeline.DownstreamProjectGridBuilder"
      h7 == SubElement(h6, root, "gridBuilder", Attrib("class", GBurl))
      gridBuilder == Len(h7)
      jobname == Get(data, "first-job", S(""))
      h8 == SubElementText(h7, gridBuilder, "firstJob", jobname)
      builds == str(Get(data, "no-of-displayed-builds", I(1)))
      h9 == SubElementText(h8, root, "noOfDisplayedBuilds", builds)
      title == Get(data, "title", None)
      h10 == ElementOptionalText(h9, root, "buildViewTitle", title)
      linkStyle == Get(data, "link-style", S("Lightbox"))
      h11 == SubElementText(h10, root, "consoleOutputLinkStyle", LinkStyleText(linkStyle))
      cssUrl == Get(data, "css-Url", None)
      h12 == ElementOptionalText(h11, root, "cssUrl", cssUrl)
      latest_job_only == Get(data, "latest-job-only", B(FALSE))
      h13 == SubElementText(h12, root, "triggerOnlyLatestJob", TrueFalse(latest_job_only))
      manual_trigger == Get(data, "manual-trigger", B(FALSE))
      h14 == SubElementText(h13, root, "alwaysAllowManualTrigger", TrueFalse(manual_trigger))
      show_parameters == Get(data, "show-parameters", B(FALSE))
      h15 == SubElementText(h14, root, "showPipelineParameters", TrueFalse(show_parameters))
      parameters_in_headers == Get(data, "parameters-in-headers", B(FALSE))
      h16 == SubElementText(h15, root, "showPipelineParametersInHeaders",
                            TrueFalse(parameters_in_headers))
      start_with_parameters == StartWithParameters(data)
      h17 == SubElementText(h16, root, "startsWithParameters",
                            TrueFalse(start_with_parameters))
      refresh_frequency == str(Get(data, "refresh-frequency", I(3)))
      h18 == SubElementText(h17, root, "refreshFrequency", refresh_frequency)
      headers == Get(data, "definition-header", B(FALSE))
      h19 == SubElementText(h18, root, "showPipelineDefinitionHeader", TrueFalse(headers))
  IN [heap |-> h19, ret |-> Ref(root), exc |-> None]

-----------------------------------------------------------------------------
(* The callers: the options mappings they pass and the calls they make *)

MaxOptions == 3
MaxJobs == 2
MaxCols == 2
MaxCalls == 3

RECURSIVE SeqsUpTo(_, _)
\* the sequences over items of length at most n
SeqsUpTo(items, n) ==
  IF n = 0 THEN {<<>>}
  ELSE LET shorter == SeqsUpTo(items, n - 1)
       IN shorter \cup {Append(s, x) : s \in shorter, x \in items}

Bools == {B(TRUE), B(FALSE)}

Names == {S("myview"), S("pipeline1")}

JobNameValues == {L(s) : s \in SeqsUpTo({S("job-a"), I(12)}, MaxJobs)}

ColumnValues ==
  {L(s) : s \in SeqsUpTo({S("status"), S("job"), S("bogus")}, MaxCols)}

ListKeys ==
  {"description", "filter-executors", "filter-queue", "job-name", "columns",
   "regex", "recurse", "status-filter"}

ListValues(k) ==
  CASE k = "description" -> {S("a view"), S("")}
    [] k = "job-name" -> JobNameValues
    [] k = "columns" -> ColumnValues
    [] k = "regex" -> {S("job-.*")}
    [] OTHER -> Bools

PipelineKeys ==
  {"description", "filter-executors", "filter-queue", "first-job",
   "no-of-displayed-builds", "title", "link-style", "css-Url",
   "latest-job-only", "manual-trigger", "show-parameters",
   "parameters-in-headers", "start-with-parameters", "starts-with-parameters",
   "refresh-frequency", "definition-header"}

PipelineValues(k) ==
  CASE k = "description" -> {S("a view")}
    [] k = "first-job" -> {S("build-A")}
    [] k = "no-of-displayed-builds" -> {I(5), S("12")}
    [] k = "title" -> {S("Title")}
    [] k = "link-style" ->
         {S("Lightbox"), S("New Window"), S("This Window"), S("Sidebar")}
    [] k = "css-Url" -> {S("http://css")}
    [] k = "refresh-frequency" -> {I(10), S("30")}
    [] OTHER -> Bools

\* the values the callers give to option k of generator gen
Values(gen, k) == IF gen = "List" THEN ListValues(k) ELSE PipelineValues(k)

RECURSIVE Mappings(_, _, _)
\* the mappings that extend m with exactly the keys K, data[k] among Values(gen, k)
Mappings(K, gen, m) ==
  IF K = {} THEN {m}
  ELSE LET k == CHOOSE x \in K : TRUE
       IN UNION {Mappings(K \ {k}, gen, m @@ (k :> v)) : v \in Values(gen, k)}

\* the sets of at most MaxOptions option keys
KeySets(Keys) == {K \in SUBSET Keys : Cardinality(K) <= MaxOptions}

\* a mapping with or without the required name
NameChoices == {<<>>} \cup {("name" :> n) : n \in Names}

Record(gen, data, r) == [gen |-> gen, data |-> data, ret |-> r.ret, exc |-> r.exc]

\* a caller invokes List().root_xml(data)
ListCall(data) ==
  LET r == List_root_xml(heap, data)
  IN /\ heap' = r.heap
     /\ calls' = Append(calls, Record("List", data, r))

\* a caller invokes Pipeline().root_xml(data)
PipelineCall(data) ==
  LET r == Pipeline_root_xml(heap, data)
  IN /\ heap' = r.heap
     /\ calls' = Append(calls, Record("Pipeline", data, r))

Init == heap = <<>> /\ calls = <<>>

\* the first call of a process, on any options mapping
Next ==
  \/ /\ calls = <<>>
     /\ \E K \in KeySets(ListKeys), m0 \in NameChoices :
          \E data \in Mappings(K, "List", m0) : ListCall(data)
  \/ /\ calls = <<>>
     /\ \E K \in KeySets(PipelineKeys), m0 \in NameChoices :
          \E data \in Mappings(K, "Pipeline", m0) : PipelineCall(data)

Spec == Init /\ [][Next]_vars

\* the mappings of the callers that call again and again
ListPool ==
  { <<>>,
    ("name" :> S("myview")),
    ("name" :> S("myview")) @@ ("columns" :> L(<<S("status"), S("bogus")>>))
      @@ ("job-name" :> L(<<S("job-a"), I(12)>>)) @@ ("status-filter" :> B(FALSE)) }

PipelinePool ==
  { <<>>,
    ("name" :> S("pipeline1")),
    ("name" :> S("pipeline1")) @@ ("first-job" :> S("build-A"))
      @@ ("no-of-displayed-builds" :> I(5)) @@ ("link-style" :> S("New Window")) }

\* up to MaxCalls calls, one after the other, of either generator
NextSeq ==
  \/ /\ Len(calls) < MaxCalls
     /\ \E data \in ListPool : ListCall(data)
  \/ /\ Len(calls) < MaxCalls
     /\ \E data \in PipelinePool : PipelineCall(data)

SpecSeq == Init /\ [][NextSeq]_vars

-----------------------------------------------------------------------------
(* Reading a document *)

Calls == {calls[i] : i \in DOMAIN calls}
ListCalls == {c \in Calls : c.gen = "List"}
PipelineCalls == {c \in Calls : c.gen = "Pipeline"}
Returned(c) == c.ret.t = "elem"
HasName(c) == "name" \in DOMAIN c.data
IsSet(c, key) == key \in DOMAIN c.data

\* the children of element id with the given tag, in document order
Find(id, tag) == SelectSeq(heap[id].children, LAMBDA e : heap[e].tag = tag)
Tags(ids) == [i \in DOMAIN ids |-> heap[ids[i]].tag]
Texts(ids) == [i \in DOMAIN ids |-> heap[ids[i]].text]
\* the root has exactly one child with this tag, and its text is text
OneChild(id, tag, text) ==
  /\ Len(Find(id, tag)) = 1
  /\ heap[Find(id, tag)[1]].text = text
Absent(id, tag) == Find(id, tag) = <<>>

RECURSIVE Tree(_, _)
\* the document below element id of heap h: tags, attributes, text, child order
Tree(h, id) ==
  [tag |-> h[id].tag, attrib |-> h[id].attrib, text |-> h[id].text,
   children |-> [i \in DOMAIN h[id].children |-> Tree(h, h[id].children[i])]]

RECURSIVE Elements(_, _)
\* the elements of the document below element id
Elements(h, id) ==
  {id} \cup UNION {Elements(h, h[id].children[i]) : i \in DOMAIN h[id].children}

-----------------------------------------------------------------------------
(* List view *)

\* C1: status-filter is tri-state. For every list-view call whose mapping has
\* a name, the root has a statusFilter child iff the key status-filter is set;
\* set to true its text is 'true', set to false it is present with 'false',
\* and omitted there is no statusFilter element at all.
C1_StatusFilterTriState ==
  \A c \in ListCalls : HasName(c) =>
    /\ Returned(c)
    /\ IsSet(c, "status-filter") <=> ~Absent(c.ret.v, "statusFilter")
    /\ IsSet(c, "status-filter") /\ c.data["status-filter"] = B(TRUE)
         => OneChild(c.ret.v, "statusFilter", S("true"))
    /\ IsSet(c, "status-filter") /\ c.data["status-filter"] = B(FALSE)
         => OneChild(c.ret.v, "statusFilter", S("false"))

\* a list view with status-filter: false was generated, statusFilter is 'false'
C1_Witness ==
  \E c \in ListCalls :
    /\ HasName(c) /\ IsSet(c, "status-filter")
    /\ c.data["status-filter"] = B(FALSE)
    /\ Returned(c) /\ OneChild(c.ret.v, "statusFilter", S("false"))

\* the registry names of the entries of columns that are registry keys, in order
RegistryNames(columns) ==
  LET known == SelectSeq(columns, LAMBDA col : col.v \in DOMAIN COLUMN_DICT)
  IN [i \in DOMAIN known |-> COLUMN_DICT[known[i].v]]

\* C2: the children of the columns element are exactly the registry names of
\* the supplied identifiers that are registry keys, in the supplied order, one
\* child per such entry; unknown entries give no child and no error, and the
\* columns container is there even without the option or with unknown entries only.
C2_ColumnsFiltered ==
  \A c \in ListCalls : HasName(c) =>
    /\ Returned(c) /\ c.exc = None
    /\ Len(Find(c.ret.v, "columns")) = 1
    /\ LET c_xml == Find(c.ret.v, "columns")[1]
           columns == IF IsSet(c, "columns") THEN c.data["columns"].v ELSE <<>>
       IN Tags(heap[c_xml].children) = RegistryNames(columns)

\* columns [bogus, job]: the unknown one is dropped, the known one kept
C2_Witness ==
  \E c \in ListCalls :
    /\ HasName(c) /\ IsSet(c, "columns")
    /\ \E i, j \in DOMAIN c.data["columns"].v :
         /\ i < j
         /\ c.data["columns"].v[i] = S("bogus")
         /\ c.data["columns"].v[j] = S("job")
    /\ Returned(c)
    /\ Tags(heap[Find(c.ret.v, "columns")[1]].children) = <<"hudson.views.JobColumn">>

\* C3: jobNames is always present, its first child is the comparator with class
\* hudson.util.CaseInsensitiveComparator, every string child comes after it,
\* there are as many string children as job names, and the i-th holds the
\* stringified i-th job name; without job names the comparator is the only child.
C3_JobNames ==
  \A c \in ListCalls : HasName(c) =>
    /\ Returned(c)
    /\ Len(Find(c.ret.v, "jobNames")) = 1
    /\ LET jn_xml == Find(c.ret.v, "jobNames")[1]
           kids == heap[jn_xml].children
           jobnames == IF IsSet(c, "job-name") THEN c.data["job-name"].v ELSE <<>>
       IN /\ Len(kids) = Len(jobnames) + 1
          /\ heap[kids[1]].tag = "comparator"
          /\ heap[kids[1]].attrib =
               {<<"class", "hudson.util.CaseInsensitiveComparator">>}
          /\ \A i \in DOMAIN jobnames :
               /\ heap[kids[i + 1]].tag = "string"
               /\ heap[kids[i + 1]].text.t = "str"
               /\ jobnames[i].t = "str" => heap[kids[i + 1]].text = jobnames[i]
               /\ jobnames[i] = I(12) => heap[kids[i + 1]].text = S("12")

\* job names ['job-a', 12] gave comparator, 'job-a', '12'
C3_Witness ==
  \E c \in ListCalls :
    /\ HasName(c) /\ IsSet(c, "job-name")
    /\ c.data["job-name"].v = <<S("job-a"), I(12)>>
    /\ Returned(c)
    /\ LET kids == heap[Find(c.ret.v, "jobNames")[1]].children
       IN Tags(kids) = <<"comparator", "string", "string">>
          /\ Texts(Tail(kids)) = <<S("job-a"), S("12")>>

\* the tags of the children of a list-view root for the options of call c
ListRootTags(c) ==
  <<"name">>
  \o (IF IsSet(c, "description") THEN <<"description">> ELSE <<>>)
  \o <<"filterExecutors", "filterQueue", "properties", "jobNames", "jobFilters",
       "columns">>
  \o (IF IsSet(c, "regex") THEN <<"includeRegex">> ELSE <<>>)
  \o <<"recurse">>
  \o (IF IsSet(c, "status-filter") THEN <<"statusFilter">> ELSE <<>>)

\* C7: the children of the list-view root hudson.model.ListView are, in this
\* order: name, description (if set), filterExecutors, filterQueue, properties,
\* jobNames, jobFilters, columns, includeRegex (if regex is set), recurse,
\* statusFilter (if status-filter is set); nothing else, nothing twice.
C7_ListRootOrder ==
  \A c \in ListCalls : HasName(c) =>
    /\ Returned(c)
    /\ heap[c.ret.v].tag = "hudson.model.ListView"
    /\ Tags(heap[c.ret.v].children) = ListRootTags(c)

\* a list view with description, regex and status-filter has all eleven children
C7_Witness ==
  \E c \in ListCalls :
    /\ HasName(c) /\ IsSet(c, "description") /\ IsSet(c, "regex")
    /\ IsSet(c, "status-filter")
    /\ Returned(c) /\ Len(heap[c.ret.v].children) = Len(ListRootTags(c))
    /\ heap[heap[c.ret.v].children[Len(ListRootTags(c))]].tag = "statusFilter"

-----------------------------------------------------------------------------
(* Pipeline view *)

\* the text of the only child with this tag
TextOf(id, tag) == heap[Find(id, tag)[1]].text

C5_StartsWithParameters ==
  \A c \in PipelineCalls : HasName(c) =>
    /\ Returned(c)
    /\ IsSet(c, "starts-with-parameters")
         /\ c.data["starts-with-parameters"] = B(TRUE)
         => TextOf(c.ret.v, "startsWithParameters") = S("true")
    /\ ~IsSet(c, "starts-with-parameters")
         => TextOf(c.ret.v, "startsWithParameters") = S("false")

\* the tags of the children of a pipeline-view root for the options of call c
PipelineRootTags(c) ==
  <<"name">>
  \o (IF IsSet(c, "description") THEN <<"description">> ELSE <<>>)
  \o <<"filterExecutors", "filterQueue", "properties", "gridBuilder",
       "noOfDisplayedBuilds", "buildViewTitle", "consoleOutputLinkStyle",
       "cssUrl", "triggerOnlyLatestJob", "alwaysAllowManualTrigger",
       "showPipelineParameters", "showPipelineParametersInHeaders",
       "startsWithParameters", "refreshFrequency",
       "showPipelineDefinitionHeader">>

\* the text a count or frequency option is written as
Written(c, key, default) ==
  IF ~IsSet(c, key) THEN S(default)
  ELSE IF c.data[key].t = "str" THEN c.data[key]
  ELSE IF c.data[key] = I(5) THEN S("5")
  ELSE IF c.data[key] = I(10) THEN S("10")
  ELSE None

\* C9: the pipeline root carries plugin='build-pipeline-plugin' and all its
\* elements but description whatever the options; firstJob under gridBuilder
\* holds first-job or the empty string, noOfDisplayedBuilds the stringified
\* option or '1', refreshFrequency the stringified option or '3', and
\* buildViewTitle and cssUrl the option verbatim or no text.
C9_PipelineDefaults ==
  \A c \in PipelineCalls : HasName(c) =>
    /\ Returned(c)
    /\ heap[c.ret.v].attrib = {<<"plugin", "build-pipeline-plugin">>}
    /\ Tags(heap[c.ret.v].children) = PipelineRootTags(c)
    /\ LET gridBuilder == Find(c.ret.v, "gridBuilder")[1]
       IN /\ Tags(heap[gridBuilder].children) = <<"firstJob">>
          /\ TextOf(gridBuilder, "firstJob") =
               IF IsSet(c, "first-job") THEN c.data["first-job"] ELSE S("")
    /\ TextOf(c.ret.v, "noOfDisplayedBuilds") = Written(c, "no-of-displayed-builds", "1")
    /\ TextOf(c.ret.v, "refreshFrequency") = Written(c, "refresh-frequency", "3")
    /\ TextOf(c.ret.v, "buildViewTitle") =
         IF IsSet(c, "title") THEN c.data["title"] ELSE None
    /\ TextOf(c.ret.v, "cssUrl") =
         IF IsSet(c, "css-Url") THEN c.data["css-Url"] ELSE None

\* first-job build-A and no-of-displayed-builds 5, nothing else: '5', 'build-A',
\* refreshFrequency '3', buildViewTitle and cssUrl without text
C9_Witness ==
  \E c \in PipelineCalls :
    /\ DOMAIN c.data = {"name", "first-job", "no-of-displayed-builds"}
    /\ c.data["no-of-displayed-builds"] = I(5)
    /\ Returned(c)
    /\ TextOf(c.ret.v, "noOfDisplayedBuilds") = S("5")
    /\ TextOf(Find(c.ret.v, "gridBuilder")[1], "firstJob") = S("build-A")
    /\ TextOf(c.ret.v, "refreshFrequency") = S("3")
    /\ TextOf(c.ret.v, "buildViewTitle") = None
    /\ TextOf(c.ret.v, "cssUrl") = None

-----------------------------------------------------------------------------
(* Both generators *)

\* the boolean-always fields: option key and element
ListBooleans ==
  {<<"filter-executors", "filterExecutors">>, <<"filter-queue", "filterQueue">>,
   <<"recurse", "recurse">>}

PipelineBooleans ==
  {<<"filter-executors", "filterExecutors">>, <<"filter-queue", "filterQueue">>,
   <<"latest-job-only", "triggerOnlyLatestJob">>,
   <<"manual-trigger", "alwaysAllowManualTrigger">>,
   <<"show-parameters", "showPipelineParameters">>,
   <<"parameters-in-headers", "showPipelineParametersInHeaders">>,
   <<"start-with-parameters", "startsWithParameters">>,
   <<"definition-header", "showPipelineDefinitionHeader">>}

BooleansOf(c) == IF c.gen = "List" THEN ListBooleans ELSE PipelineBooleans

AlwaysTags(c) ==
  IF c.gen = "List"
  THEN {"name", "filterExecutors", "filterQueue", "properties", "jobNames",
        "jobFilters", "columns", "recurse"}
  ELSE {"name", "filterExecutors", "filterQueue", "properties", "gridBuilder",
        "noOfDisplayedBuilds", "buildViewTitle", "consoleOutputLinkStyle",
        "cssUrl", "triggerOnlyLatestJob", "alwaysAllowManualTrigger",
        "showPipelineParameters", "showPipelineParametersInHeaders",
        "startsWithParameters", "refreshFrequency",
        "showPipelineDefinitionHeader"}

\* C10: without the required name, a call of either generator ends in an
\* error that names the missing field and returns no document; a document
\* that is returned is complete and its name element holds the supplied name.
C10_MissingName ==
  \A c \in Calls :
    /\ ~HasName(c) => c.exc = KeyError("name") /\ c.ret = None
    /\ Returned(c) =>
         /\ HasName(c) /\ c.exc = None
         /\ OneChild(c.ret.v, "name", c.data["name"])
         /\ heap[heap[c.ret.v].children[1]].tag = "name"
         /\ \A tag \in AlwaysTags(c) : Len(Find(c.ret.v, tag)) = 1

\* a generator was called with options but no name and raised KeyError('name')
C10_Witness ==
  \E c \in Calls :
    /\ ~HasName(c) /\ DOMAIN c.data /= {}
    /\ c.exc = KeyError("name") /\ ~Returned(c)

-----------------------------------------------------------------------------
(* Purity *)

\* the generator named gen, run on heap h
Generate(gen, h, data) ==
  IF gen = "List" THEN List_root_xml(h, data) ELSE Pipeline_root_xml(h, data)

\* what a call returned, as a value: the tree below the root, or None
Document(h, ret) == IF ret.t = "elem" THEN Tree(h, ret.v) ELSE None

\* the document and the exception of the same call made first, on a fresh heap
FirstDocument(c) ==
  LET r == Generate(c.gen, <<>>, c.data) IN Document(r.heap, r.ret)
FirstException(c) == Generate(c.gen, <<>>, c.data).exc

\* C6: generation is a pure function of the options mapping. Whatever calls
\* of either generator came before, a call returns a document deeply equal
\* (tags, attributes, text, child order) to the one a first call with the same
\* mapping returns, and no two calls share an element of their trees.
C6_Pure ==
  /\ \A c \in Calls :
       /\ Document(heap, c.ret) = FirstDocument(c)
       /\ c.exc = FirstException(c)
  /\ \A i, j \in DOMAIN calls :
       i /= j /\ Returned(calls[i]) /\ Returned(calls[j])
         => Elements(heap, calls[i].ret.v) \cap Elements(heap, calls[j].ret.v) = {}

\* the same list view was generated twice with a pipeline view in between
C6_Witness ==
  \E i, j, k \in DOMAIN calls :
    /\ i < j /\ j < k
    /\ calls[i].gen = "List" /\ calls[k].gen = "List" /\ calls[j].gen = "Pipeline"
    /\ calls[i].data = calls[k].data
    /\ IsSet(calls[i], "columns")
    /\ Returned(calls[i]) /\ Returned(calls[j]) /\ Returned(calls[k])
    /\ calls[i].ret /= calls[k].ret
    /\ Tree(heap, calls[i].ret.v) = Tree(heap, calls[k].ret.v)

====
